---- MODULE Spec2Model ----
(***************************************************************************)
(* scripts/build_extra.py: the PlatformIO/SCons hook that runs            *)
(* scripts/embed_html.py before the program is built.                     *)
(*                                                                         *)
(* The model has three parts:                                              *)
(*   - the script itself (its top-level statement env.AddPreAction and    *)
(*     the function embed_html_callback, one action per statement);       *)
(*   - the build environment `env` the script is loaded into: the table   *)
(*     of registered actions and the build of the "buildprog" target,     *)
(*     which runs the target's pre-actions, then the program build step,  *)
(*     then its post-actions;                                              *)
(*   - the child process started by subprocess.run.                       *)
(***************************************************************************)
EXTENDS Integers, Sequences, FiniteSets, TLC

(***************************************************************************)
(* Bounds and input sets.                                                  *)
(***************************************************************************)

\* How many times one session of the build tool builds the program target.
MaxBuilds == 2

\* __file__: the absolute path of build_extra.py, as a sequence of path
\* components below the root.
FileSet ==
    { <<"build_extra.py">>,
      <<"scripts", "build_extra.py">>,
      <<"proj", "scripts", "build_extra.py">> }

\* The positional arguments the build tool passes to an action function.
ArgSet == { <<>>, <<"target", "source", "env">> }

\* What the child process can leave behind.
ReturnCodes == {0, 1, -9}
StdoutSet == {"", "ok"}
StderrSet == {"", "bad"}

\* Python's exception classes, each with its base class.
Base ==
    [ c \in {"FileNotFoundError", "PermissionError", "OSError", "Exception",
             "BaseException"} |->
        CASE c = "FileNotFoundError" -> "OSError"
          [] c = "PermissionError"   -> "OSError"
          [] c = "OSError"           -> "Exception"
          [] c = "Exception"         -> "BaseException"
          [] c = "BaseException"     -> "BaseException" ]

\* The exceptions subprocess.run raises when the child cannot be started.
ExcSet ==
    { [cls |-> "FileNotFoundError",
       msg |-> "[Errno 2] No such file or directory: 'python3'"],
      [cls |-> "PermissionError",
       msg |-> "[Errno 13] Permission denied: 'python3'"] }

Targets == {"buildprog", "upload"}

(***************************************************************************)
(* pathlib and str.                                                        *)
(***************************************************************************)

\* Path.parent: the root is its own parent.
Parent(p) == IF p = <<>> THEN <<>> ELSE SubSeq(p, 1, Len(p) - 1)

\* Path / name
Join(p, name) == Append(p, name)

RECURSIVE JoinParts(_)
JoinParts(p) ==
    IF Len(p) = 1 THEN p[1]
    ELSE JoinParts(SubSeq(p, 1, Len(p) - 1)) \o "/" \o p[Len(p)]

\* str(Path)
Str(p) == IF p = <<>> THEN "/" ELSE "/" \o JoinParts(p)

(***************************************************************************)
(* State.                                                                  *)
(***************************************************************************)
VARIABLES
    file,          \* __file__
    loaded,        \* the script's top level has run
    actions,       \* env: [pre, post: target -> sequence of callbacks]
    phase,         \* build tool: "read", "ready", "pre", "prog", "post", "failed"
    idx,           \* build tool: index of the next action of the phase's list
    builds,        \* build tool: builds of "buildprog" started
    calls,         \* build tool: invocations of embed_html_callback made
    pc,            \* embed_html_callback: the line about to run
    args,          \* embed_html_callback: *args
    script_dir, project_root, embed_script,
    result,        \* <<>> while unassigned, else <<CompletedProcess>>
    exc,           \* <<>> or <<the exception being handled or propagated>>
    proc,          \* the child process of this invocation
    launches,      \* launch attempts made by this invocation
    retval,        \* <<>> for None, else <<the value returned>>
    header,        \* html_template.h was generated during this build
    out            \* the build log: the lines printed so far

vars == << file, loaded, actions, phase, idx, builds, calls, pc, args,
           script_dir, project_root, embed_script, result, exc, proc,
           launches, retval, header, out >>

localVars == << script_dir, project_root, embed_script, result, exc >>

NoProc == [state |-> "none", argv |-> <<>>, cwd |-> "", completed |-> <<>>]

NoActions == [pre  |-> [t \in Targets |-> <<>>],
              post |-> [t \in Targets |-> <<>>]]

Init ==
    /\ file \in FileSet
    /\ loaded = FALSE
    /\ actions = NoActions
    /\ phase = "read"
    /\ idx = 1
    /\ builds = 0
    /\ calls = 0
    /\ pc = "idle"
    /\ args = <<>>
    /\ script_dir = <<>>
    /\ project_root = <<>>
    /\ embed_script = <<>>
    /\ result = <<>>
    /\ exc = <<>>
    /\ proc = NoProc
    /\ launches = 0
    /\ retval = <<>>
    /\ header = FALSE
    /\ out = <<>>

(***************************************************************************)
(* The build environment `env`.                                            *)
(***************************************************************************)

\* env.AddPreAction(target, action)
AddPreAction(acts, target, cb) ==
    [acts EXCEPT !.pre[target] = Append(@, cb)]

RegisterAsPostAction(acts) ==
    [acts EXCEPT !.post["buildprog"] = Append(@, "embed_html_callback")]

\* line 36: env.AddPreAction("buildprog", embed_html_callback)
Register(acts) == AddPreAction(acts, "buildprog", "embed_html_callback")

\* The actions the build tool is running in the current phase.
Pending ==
    CASE phase = "pre"  -> actions.pre["buildprog"]
      [] phase = "post" -> actions.post["buildprog"]
      [] OTHER          -> <<>>

\* The build tool reads the script: lines 7-36 run once, the function is
\* defined and registered, and the reading phase ends.
LoadScript ==
    /\ phase = "read"
    /\ ~loaded
    /\ loaded' = TRUE
    /\ actions' = Register(actions)
    /\ phase' = "ready"
    /\ UNCHANGED << file, idx, builds, calls, pc, args, localVars, proc,
                    launches, retval, header, out >>

\* The build tool starts to build the program target.
StartBuild ==
    /\ phase = "ready"
    /\ builds < MaxBuilds
    /\ builds' = builds + 1
    /\ phase' = "pre"
    /\ idx' = 1
    /\ header' = FALSE
    /\ UNCHANGED << file, loaded, actions, calls, pc, args, localVars, proc,
                    launches, retval, out >>

\* The build tool calls the next registered action of the phase.
InvokeCallback ==
    /\ phase \in {"pre", "post"}
    /\ idx <= Len(Pending)
    /\ Pending[idx] = "embed_html_callback"
    /\ pc = "idle"
    /\ \E a \in ArgSet : args' = a
    /\ pc' = "L14"
    /\ calls' = calls + 1
    /\ launches' = 0
    /\ proc' = NoProc
    /\ UNCHANGED << file, loaded, actions, phase, idx, builds, localVars,
                    retval, header, out >>

(***************************************************************************)
(* embed_html_callback, lines 12-33.                                       *)
(***************************************************************************)

Banner == "Running HTML embedding script..."
ErrMsg(stderr) == "Error running embed script: " \o stderr
FailMsg(e) == "Failed to run HTML embedding script: " \o e.msg

\* print(s): one more line in the build log.
print(log, s) == Append(log, s)

RECURSIVE IsSubclass(_, _)
IsSubclass(c, d) ==
    IF c = d THEN TRUE
    ELSE IF Base[c] = c THEN FALSE
    ELSE IsSubclass(Base[c], d)

HandlesOnlyFileNotFound(cls) == IsSubclass(cls, "FileNotFoundError")

\* line 32: except Exception
Handles(cls) == IsSubclass(cls, "Exception")

RunArgsCwdScriptDir(script, root) ==
    [argv |-> <<"python3", Str(script)>>, cwd |-> Str(Parent(script))]

\* lines 23-25: what subprocess.run is asked to start, and where.
RunArgs(script, root) ==
    [argv |-> <<"python3", Str(script)>>, cwd |-> Str(root)]

CompletedOnceStarted(p) == p.state # "none"

\* subprocess.run returns when the child has exited.
Completed(p) == p.state = "exited"

ReportStdoutAlways(res) == res.stdout

ReportStderrAlways(res) == ErrMsg(res.stderr)

ReportBoth(res) ==
    IF res.returncode = 0 THEN res.stdout \o res.stderr
    ELSE ErrMsg(res.stderr)

\* lines 27-30: the line printed for a completed child.
Report(res) ==
    IF res.returncode = 0 THEN res.stdout ELSE ErrMsg(res.stderr)

ReturnValueIsReturnCode(res) ==
    IF res = <<>> THEN <<"error">> ELSE <<Head(res).returncode>>

\* The function ends without a return statement: it returns None.
ReturnValue(res) == <<>>

FlowRetry(line, branch) ==
    CASE line = "L14"  -> "L17"
      [] line = "L17"  -> "L23"
      [] line = "L23"  -> CASE branch = "started" -> "wait"
                            [] branch = "caught"  -> "L33"
                            [] OTHER              -> "raised"
      [] line = "wait" -> "L27"
      [] line = "L27"  -> IF branch = "zero" THEN "end" ELSE "L23"
      [] line = "L33"  -> "L23"
      [] OTHER         -> "returned"

FlowReraise(line, branch) ==
    CASE line = "L14"  -> "L17"
      [] line = "L17"  -> "L23"
      [] line = "L23"  -> CASE branch = "started" -> "wait"
                            [] branch = "caught"  -> "L33"
                            [] OTHER              -> "raised"
      [] line = "wait" -> "L27"
      [] line = "L27"  -> "end"
      [] line = "L33"  -> "raised"
      [] OTHER         -> "returned"

\* The line that runs after `line`; `branch` is the way `line` went.
Flow(line, branch) ==
    CASE line = "L14"  -> "L17"
      [] line = "L17"  -> "L23"
      [] line = "L23"  -> CASE branch = "started" -> "wait"
                            [] branch = "caught"  -> "L33"
                            [] OTHER              -> "raised"
      [] line = "wait" -> "L27"
      [] line = "L27"  -> "end"
      [] line = "L33"  -> "end"
      [] OTHER         -> "returned"

\* line 14
PrintBanner ==
    /\ pc = "L14"
    /\ out' = print(out, Banner)
    /\ pc' = Flow("L14", "next")
    /\ UNCHANGED << file, loaded, actions, phase, idx, builds, calls, args,
                    localVars, proc, launches, retval, header >>

\* lines 17-19
ResolvePaths ==
    /\ pc = "L17"
    /\ script_dir' = Parent(file)
    /\ project_root' = Parent(script_dir')
    /\ embed_script' = Join(script_dir', "embed_html.py")
    /\ pc' = Flow("L17", "next")
    /\ UNCHANGED << file, loaded, actions, phase, idx, builds, calls, args,
                    result, exc, proc, launches, retval, header, out >>

\* lines 23-25, the child starts: subprocess.run waits for it.
Launch ==
    /\ pc = "L23"
    /\ launches' = launches + 1
    /\ LET a == RunArgs(embed_script, project_root)
       IN  proc' = [state |-> "running", argv |-> a.argv, cwd |-> a.cwd,
                    completed |-> <<>>]
    /\ pc' = Flow("L23", "started")
    /\ UNCHANGED << file, loaded, actions, phase, idx, builds, calls, args,
                    localVars, retval, header, out >>

\* lines 23-25, the child cannot be started: subprocess.run raises, and
\* line 32 catches what it handles.
LaunchFails ==
    /\ pc = "L23"
    /\ launches' = launches + 1
    /\ \E e \in ExcSet :
          /\ exc' = <<e>>
          /\ pc' = Flow("L23", IF Handles(e.cls) THEN "caught" ELSE "uncaught")
    /\ UNCHANGED << file, loaded, actions, phase, idx, builds, calls, args,
                    script_dir, project_root, embed_script, result, proc,
                    retval, header, out >>

\* The child (embed_html.py) ends; it may or may not have written the header.
ProcExit ==
    /\ proc.state = "running"
    /\ \E rc \in ReturnCodes, so \in StdoutSet, se \in StderrSet :
          proc' = [proc EXCEPT
                      !.state = "exited",
                      !.completed = <<[returncode |-> rc, stdout |-> so,
                                       stderr |-> se]>>]
    /\ \E h \in BOOLEAN : header' = h
    /\ UNCHANGED << file, loaded, actions, phase, idx, builds, calls, pc,
                    args, localVars, launches, retval, out >>

\* line 23: subprocess.run returns the CompletedProcess.
RunReturns ==
    /\ pc = "wait"
    /\ Completed(proc)
    /\ result' = proc.completed
    /\ pc' = Flow("wait", "next")
    /\ UNCHANGED << file, loaded, actions, phase, idx, builds, calls, args,
                    script_dir, project_root, embed_script, exc, proc,
                    launches, retval, header, out >>

\* lines 27-30
PrintResult ==
    /\ pc = "L27"
    /\ out' = print(out, Report(Head(result)))
    /\ pc' = Flow("L27", IF Head(result).returncode = 0 THEN "zero"
                         ELSE "nonzero")
    /\ UNCHANGED << file, loaded, actions, phase, idx, builds, calls, args,
                    localVars, proc, launches, retval, header >>

\* line 33
PrintFailure ==
    /\ pc = "L33"
    /\ out' = print(out, FailMsg(Head(exc)))
    /\ pc' = Flow("L33", "next")
    /\ UNCHANGED << file, loaded, actions, phase, idx, builds, calls, args,
                    localVars, proc, launches, retval, header >>

\* The end of the function body.
Return ==
    /\ pc = "end"
    /\ retval' = ReturnValue(result)
    /\ pc' = Flow("end", "next")
    /\ UNCHANGED << file, loaded, actions, phase, idx, builds, calls, args,
                    localVars, proc, launches, header, out >>

(***************************************************************************)
(* The build tool after the action, and the program build step.            *)
(***************************************************************************)

\* The status the build tool gives an action function's outcome: an
\* exception or a value other than None and 0 fails the build.
ActionFailed == pc = "raised" \/ (retval # <<>> /\ Head(retval) # 0)

\* The action function is back in the build tool; its frame is gone.
ToolResume ==
    /\ pc \in {"returned", "raised"}
    /\ phase' = IF ActionFailed THEN "failed" ELSE phase
    /\ idx' = idx + 1
    /\ pc' = "idle"
    /\ args' = <<>>
    /\ script_dir' = <<>>
    /\ project_root' = <<>>
    /\ embed_script' = <<>>
    /\ result' = <<>>
    /\ exc' = <<>>
    /\ retval' = <<>>
    /\ proc' = NoProc
    /\ UNCHANGED << file, loaded, actions, builds, calls, launches, header,
                    out >>

\* Every pre-action has run: the program build step starts.
StartProgramBuild ==
    /\ phase = "pre"
    /\ idx > Len(Pending)
    /\ pc = "idle"
    /\ phase' = "prog"
    /\ UNCHANGED << file, loaded, actions, idx, builds, calls, pc, args,
                    localVars, proc, launches, retval, header, out >>

\* The program build step ends: the post-actions are next.
FinishProgramBuild ==
    /\ phase = "prog"
    /\ phase' = "post"
    /\ idx' = 1
    /\ UNCHANGED << file, loaded, actions, builds, calls, pc, args,
                    localVars, proc, launches, retval, header, out >>

\* Every post-action has run: the target is built.
FinishBuild ==
    /\ phase = "post"
    /\ idx > Len(Pending)
    /\ pc = "idle"
    /\ phase' = "ready"
    /\ UNCHANGED << file, loaded, actions, idx, builds, calls, pc, args,
                    localVars, proc, launches, retval, header, out >>

CallbackStep ==
    \/ PrintBanner
    \/ ResolvePaths
    \/ Launch
    \/ LaunchFails
    \/ RunReturns
    \/ PrintResult
    \/ PrintFailure
    \/ Return

ToolStep ==
    \/ InvokeCallback
    \/ ToolResume
    \/ StartProgramBuild
    \/ FinishProgramBuild
    \/ FinishBuild

Next ==
    \/ LoadScript
    \/ StartBuild
    \/ CallbackStep
    \/ ToolStep
    \/ ProcExit

Spec == Init /\ [][Next]_vars

\* The callback and the build tool run on one thread that is never
\* suspended for ever; nothing makes the child end or a build start.
FairSpec == Spec /\ WF_vars(CallbackStep) /\ WF_vars(ToolStep)

(***************************************************************************)
(* Properties.                                                             *)
(***************************************************************************)

\* An invocation of the callback is in progress.
InCall == pc # "idle"

\* The number of log lines printed before the invocation in progress.
LogBase == 2 * (calls - 1)

LastLine == out[Len(out)]

ChildExited == proc.state = "exited"
ChildResult == Head(proc.completed)
ExitedZero == InCall /\ ChildExited /\ ChildResult.returncode = 0
ExitedNonZero == InCall /\ ChildExited /\ ChildResult.returncode # 0
LaunchRaised == InCall /\ exc # <<>>

\* The callback has printed its outcome line.
Reported == pc \in {"end", "returned"}

OnlyRegistration ==
    [pre  |-> [t \in Targets |->
                  IF t = "buildprog" THEN <<"embed_html_callback">> ELSE <<>>],
     post |-> [t \in Targets |-> <<>>]]

\* C1: once the script is loaded there is exactly one registration, the
\* callback as a pre-action of "buildprog"; the callback is never invoked
\* before that; it runs only in the pre-action phase of a build, and when
\* the program build step runs it has been invoked once for that build and
\* has finished.
C1_RegisteredOnceAsPreAction ==
    /\ loaded => actions = OnlyRegistration
    /\ ~loaded => actions = NoActions /\ calls = 0 /\ pc = "idle"
    /\ InCall => phase = "pre" /\ calls = builds
    /\ phase \in {"prog", "post"} => pc = "idle" /\ calls = builds
    /\ calls <= builds

C1_Witness == phase = "prog" /\ loaded /\ calls = 1 /\ builds = 1

\* C2: when the child was started and exited with code zero, the outcome
\* line the callback prints is the captured stdout, and the callback
\* returns None without raising.
C2_SuccessPrintsStdout ==
    ExitedZero =>
        /\ pc \in {"wait", "L27", "end", "returned"}
        /\ Reported => /\ Len(out) = LogBase + 2
                       /\ LastLine = ChildResult.stdout
        /\ pc = "returned" => ~ActionFailed

C2_Witness ==
    /\ pc = "returned"
    /\ ExitedZero
    /\ ChildResult.stdout = "ok"
    /\ LastLine = "ok"

\* C3: when the child was started and exited with a non-zero code, the
\* outcome line the callback prints carries the captured stderr (after the
\* prefix "Error running embed script: "), and the callback returns None
\* without raising: the build tool sees no failure.
C3_FailurePrintsStderr ==
    ExitedNonZero =>
        /\ pc \in {"wait", "L27", "end", "returned"}
        /\ Reported => /\ Len(out) = LogBase + 2
                       /\ LastLine = "Error running embed script: "
                                        \o ChildResult.stderr
        /\ pc = "returned" => retval = <<>> /\ ~ActionFailed

C3_Witness ==
    /\ pc = "returned"
    /\ ExitedNonZero
    /\ ChildResult.stderr = "bad"
    /\ LastLine = "Error running embed script: bad"

\* C4: when starting the child raises, the callback catches the exception,
\* prints the failure message with the exception's text and returns None
\* without raising.
C4_LaunchExceptionCaught ==
    LaunchRaised =>
        /\ pc \in {"L33", "end", "returned"}
        /\ proc.state = "none"
        /\ Reported => /\ Len(out) = LogBase + 2
                       /\ LastLine = "Failed to run HTML embedding script: "
                                        \o Head(exc).msg
        /\ pc = "returned" => retval = <<>> /\ ~ActionFailed

C4_Witness ==
    /\ pc = "returned"
    /\ LaunchRaised
    /\ Head(exc).cls = "PermissionError"
    /\ LastLine = "Failed to run HTML embedding script: "
                     \o "[Errno 13] Permission denied: 'python3'"

\* The embedding step is over: the child has ended or could not be started.
EmbeddingOver == ExitedZero \/ ExitedNonZero \/ LaunchRaised

\* C5: whatever the outcome of the embedding step, the callback never
\* raises and never returns anything but None, the build never fails, and
\* once the embedding step is over the program build step is reached.
C5_SilentDegradation ==
    /\ [](/\ pc # "raised"
          /\ phase # "failed"
          /\ (pc = "returned" => retval = <<>>))
    /\ (EmbeddingOver ~> phase = "prog")

C5_Witness ==
    /\ phase = "prog"
    /\ \E e \in ExcSet : LastLine = FailMsg(e)

\* C6: while the child runs the callback waits in subprocess.run: it has
\* printed the banner only, it has not returned, and the build is still in
\* its pre-action phase.
C6_Synchronous ==
    proc.state = "running" =>
        /\ pc = "wait"
        /\ result = <<>>
        /\ Len(out) = LogBase + 1
        /\ retval = <<>>
        /\ phase = "pre"

C6_Witness == proc.state = "running" /\ pc = "wait" /\ phase = "pre"

\* C7: an invocation makes no launch attempt before line 23 and exactly
\* one from then on, whatever the outcome.
C7_NoRetry ==
    /\ launches <= 1
    /\ pc \in {"L14", "L17", "L23"} => launches = 0
    /\ pc \in {"wait", "L27", "L33", "end", "returned", "raised"}
          => launches = 1

C7_Witness ==
    /\ pc = "returned"
    /\ launches = 1
    /\ (ExitedNonZero \/ LaunchRaised)

\* C8: the child is python3 running embed_html.py of the hook script's
\* directory, in the parent of that directory, whatever the arguments of
\* the callback.
C8_LaunchesEmbedScript ==
    proc.state # "none" =>
        /\ proc.argv = <<"python3", Str(Join(Parent(file), "embed_html.py"))>>
        /\ proc.cwd = Str(Parent(Parent(file)))
        /\ file = <<"proj", "scripts", "build_extra.py">> =>
              /\ proc.argv[2] = "/proj/scripts/embed_html.py"
              /\ proc.cwd = "/proj"
        /\ file = <<"scripts", "build_extra.py">> =>
              /\ proc.argv[2] = "/scripts/embed_html.py"
              /\ proc.cwd = "/"

C8_Witness ==
    /\ proc.state = "running"
    /\ args = <<"target", "source", "env">>
    /\ proc.cwd = "/proj"

\* C9: the callback does not look for the header: when the embedding step
\* failed and no header was generated, the callback still returns None
\* without raising and the build goes on to the program build step.
C9_HeaderNotValidated ==
    /\ ((ExitedNonZero \/ LaunchRaised) /\ ~header) =>
          /\ pc # "raised"
          /\ pc = "returned" => ~ActionFailed
    /\ phase # "failed"

C9_Witness ==
    /\ phase = "prog"
    /\ ~header
    /\ \/ \E se \in StderrSet : LastLine = ErrMsg(se)
       \/ \E e \in ExcSet : LastLine = FailMsg(e)

\* The outcome line of the invocation in progress.
Outcome ==
    IF exc # <<>> THEN "Failed to run HTML embedding script: " \o Head(exc).msg
    ELSE IF ChildResult.returncode = 0 THEN ChildResult.stdout
    ELSE "Error running embed script: " \o ChildResult.stderr

\* C10: an invocation prints the banner first, before any launch attempt,
\* and then exactly one line: the captured stdout alone (exit code zero),
\* "Error running embed script: " and the captured stderr alone (non-zero
\* exit), or "Failed to run HTML embedding script: " and the exception's
\* text (launch exception).
C10_BannerThenOneOutcome ==
    /\ pc = "idle" => Len(out) = 2 * calls
    /\ pc = "L14" => Len(out) = LogBase /\ launches = 0
    /\ pc \in {"L17", "L23", "wait", "L27", "L33"} =>
          /\ Len(out) = LogBase + 1
          /\ out[LogBase + 1] = "Running HTML embedding script..."
    /\ Reported =>
          /\ Len(out) = LogBase + 2
          /\ out[LogBase + 1] = "Running HTML embedding script..."
          /\ out[LogBase + 2] = Outcome

C10_Witness ==
    /\ pc = "returned"
    /\ ExitedZero
    /\ ChildResult.stdout = "ok"
    /\ ChildResult.stderr = "bad"
    /\ out[LogBase + 2] = "ok"

====
